---- MODULE Spec2Model ----
(***************************************************************************)
(* Model of sigye's entry storage (TimeEntryRepositoryYaml), of the        *)
(* tracking service operations the command line calls, and of the          *)
(* command line's start/stop/status commands.                              *)
(*                                                                         *)
(* A timestamp is a natural number (the ISO-8601 strings the repository    *)
(* sorts on order like the instants they denote); a project name is a      *)
(* tuple of one-character strings; an entry is a record with the fields of *)
(* TimeEntry; the YAML document is the sequence under its "entries" key.   *)
(***************************************************************************)
EXTENDS Integers, Sequences, FiniteSets, TLC

VARIABLES file, fileOk, cache, now, nextId, match, last, procs

vars == <<file, fileOk, cache, now, nextId, match, last, procs>>

----------------------------------------------------------------------------
(* Bounds *)

MaxTime == 1
MaxSortTime == 2
MaxIds == 3
MaxStarts == 2
MaxPatLen == 2

(* Python's None for an absent end_time, stop_time or start_time *)
None == -1

Times == 0..MaxTime
SortTimes == 0..MaxSortTime
Ids == 1..MaxIds

(* project names, as tuples of characters *)
ProjA == <<"a">>
ProjB == <<"b">>
Projects == {ProjA, ProjB}
Comments == {"", "c"}
TagSets == {{}, {"t"}}

Entry(id, project, comment, tags, st, et) ==
    [id |-> id, project |-> project, comment |-> comment, tags |-> tags,
     start_time |-> st, end_time |-> et]

(* every entry the bounded inputs can build *)
Entries ==
    {Entry(i, p, c, tg, st, et) :
        i \in Ids, p \in Projects, c \in Comments, tg \in TagSets,
        st \in Times \cup SortTimes, et \in Times \cup SortTimes \cup {None}}

----------------------------------------------------------------------------
(* Pure parts of the repository *)

IsActive(e) == e.end_time = None

ActiveIdx(entries) == {i \in 1..Len(entries) : IsActive(entries[i])}

Min(S) == CHOOSE x \in S : \A y \in S : x <= y

(* get_active_entry taking the last entry without end_time *)
get_active_entry_last(entries) ==
    IF ActiveIdx(entries) = {} THEN <<>>
    ELSE <<entries[CHOOSE i \in ActiveIdx(entries) :
                       \A j \in ActiveIdx(entries) : j <= i]>>

(* get_active_entry: the first entry without end_time, as <<e>>, or <<>> *)
get_active_entry(entries) ==
    IF ActiveIdx(entries) = {} THEN <<>>
    ELSE <<entries[Min(ActiveIdx(entries))]>>

HasId(entries, id) == \E i \in 1..Len(entries) : entries[i].id = id

(* get_entry_by_id: the first entry with the id, as <<e>>, or <<>> (KeyError) *)
get_entry_by_id(entries, id) ==
    IF HasId(entries, id)
    THEN <<entries[Min({i \in 1..Len(entries) : entries[i].id = id})]>>
    ELSE <<>>

(* a sort that puts an element before the elements with an equal key *)
InsertByStart_before(sorted, e) ==
    LET k == Cardinality({i \in 1..Len(sorted) :
                             sorted[i].start_time < e.start_time})
    IN  SubSeq(sorted, 1, k) \o <<e>> \o SubSeq(sorted, k + 1, Len(sorted))

(* list.sort(key=start_time) is stable: insert each element, left to right, *)
(* behind the elements whose key is not greater                             *)
InsertByStart(sorted, e) ==
    LET k == Cardinality({i \in 1..Len(sorted) :
                             sorted[i].start_time <= e.start_time})
    IN  SubSeq(sorted, 1, k) \o <<e>> \o SubSeq(sorted, k + 1, Len(sorted))

RECURSIVE SortFrom(_, _)
SortFrom(acc, rest) ==
    IF rest = <<>> THEN acc
    ELSE SortFrom(InsertByStart(acc, Head(rest)), Tail(rest))

SortByStart(entries) == SortFrom(<<>>, entries)

(* the loop of save: every element with the id is replaced in its place *)
ReplaceById(entries, entry) ==
    [i \in 1..Len(entries) |->
        IF entries[i].id = entry.id THEN entry ELSE entries[i]]

(* save that appends without looking for the id *)
save_append(entries, entry) == SortByStart(Append(entries, entry))

(* save, up to the write: replace or append, then sort *)
save(entries, entry) ==
    SortByStart(IF HasId(entries, entry.id)
                THEN ReplaceById(entries, entry)
                ELSE Append(entries, entry))

(* delete_entry whose loop ends at the entry found *)
delete_entry_break(entries, id) ==
    IF HasId(entries, id)
    THEN SubSeq(entries, 1,
                Min({i \in 1..Len(entries) : entries[i].id = id}) - 1)
    ELSE entries

(* the loop of delete_entry: the elements whose id differs, in order *)
delete_entry(entries, id) ==
    SelectSeq(entries, LAMBDA e : e.id # id)

----------------------------------------------------------------------------
(* The repository object: the backing file and the cached document *)

NoCache == [loaded |-> FALSE, entries |-> <<>>]
Cached(entries) == [loaded |-> TRUE, entries |-> entries]

(* _load_data can return a document: from the cache, or by parsing the file *)
CanLoad(c, ok) == c.loaded \/ ok

(* _load_data: the cached document if there is one, else the file's *)
_load_data(c, f) == IF c.loaded THEN c.entries ELSE f

(* what the last operation was and how it ended: err = "" is success, id  *)
(* the id it was called with, found whether it met the entry it looks for *)
(* (save, delete: the id; start, stop: an active entry), ret its result   *)
(* or output, arg the project a start command was given                   *)
Outcome(op, err, id, found, ret) ==
    [op |-> op, err |-> err, id |-> id, found |-> found, ret |-> ret,
     arg |-> <<>>]

(* what a call leaves: the collection, the error raised, the value returned *)
Result(entries, err, ret) == [entries |-> entries, err |-> err, ret |-> ret]

(* the processes that run a command on the file at the same time: where *)
(* each one is in its command (idle, loaded: _load_data done, open: the *)
(* file opened for writing), the document it holds, and the document    *)
(* the file held when it opened it                                      *)
Procs == {1, 2}
NoProc == [pc |-> "idle", doc |-> <<>>, before |-> <<>>]
NoProcs == [p \in Procs |-> NoProc]

NoMatch == [pats |-> <<>>, project |-> <<>>, result |-> "none"]

TypeOK ==
    /\ fileOk \in BOOLEAN
    /\ cache.loaded \in BOOLEAN
    /\ now \in Times
    /\ nextId \in 1..(MaxIds + 1)
    /\ \A i \in 1..Len(file) : file[i] \in Entries

(* the store right after TimeEntryRepositoryYaml(filename) on a path with *)
(* no file: _ensure_file_exists writes the empty document and caches it   *)
Init ==
    /\ file = <<>>
    /\ fileOk = TRUE
    /\ cache = Cached(<<>>)
    /\ now = 0
    /\ nextId = 1
    /\ match = NoMatch
    /\ procs = NoProcs
    /\ last = Outcome("init", "", 0, FALSE, <<>>)

(* the entries the repository-level operations are called with *)
StoreEntries ==
    {Entry(i, ProjA, "", {}, st, et) :
        i \in Ids, st \in Times, et \in {None, MaxTime}}

(* TimeEntryRepositoryYaml(filename) on the existing file: no cache yet *)
NewStore ==
    /\ cache' = NoCache
    /\ last' = Outcome("new", "", 0, FALSE, <<>>)
    /\ UNCHANGED <<file, fileOk, now, nextId, match, procs>>

(* a read of a file that does not parse fails and caches nothing *)
LoadFails(op) ==
    /\ ~CanLoad(cache, fileOk)
    /\ last' = Outcome(op, "LoadError", 0, FALSE, <<>>)
    /\ UNCHANGED <<file, fileOk, cache, now, nextId, match, procs>>

(* save of an entry stored under its id, or of one with a newly made id; *)
(* op names the call in the record of the last operation                 *)
RepoSaveAs(op, entry) ==
    /\ CanLoad(cache, fileOk)
    /\ LET data == _load_data(cache, file)
           new == save(data, entry)
       IN  /\ HasId(data, entry.id) \/ entry.id = nextId
           /\ file' = new
           /\ fileOk' = TRUE
           /\ cache' = Cached(new)
           /\ last' = Outcome(op, "", entry.id, HasId(data, entry.id),
                              <<entry>>)
    /\ nextId' = IF entry.id = nextId THEN nextId + 1 ELSE nextId
    /\ UNCHANGED <<now, match, procs>>

RepoSave(entry) == RepoSaveAs("save", entry)

(* save called once more with the entry the last call saved *)
RepoSaveAgain ==
    /\ last.op \in {"save", "save_again"}
    /\ last.err = ""
    /\ RepoSaveAs("save_again", last.ret[1])

RepoDelete(id) ==
    /\ CanLoad(cache, fileOk)
    /\ LET data == _load_data(cache, file)
       IN  IF HasId(data, id)
           THEN /\ file' = delete_entry(data, id)
                /\ fileOk' = TRUE
                /\ cache' = Cached(delete_entry(data, id))
                /\ last' = Outcome("delete", "", id, TRUE,
                                   get_entry_by_id(data, id))
           ELSE /\ cache' = Cached(data)
                /\ last' = Outcome("delete", "KeyError", id, FALSE, <<>>)
                /\ UNCHANGED <<file, fileOk>>
    /\ UNCHANGED <<now, nextId, match, procs>>

RepoGetAll ==
    /\ CanLoad(cache, fileOk)
    /\ cache' = Cached(_load_data(cache, file))
    /\ last' = Outcome("get_all", "", 0, FALSE, _load_data(cache, file))
    /\ UNCHANGED <<file, fileOk, now, nextId, match, procs>>

RepoGetActive ==
    /\ CanLoad(cache, fileOk)
    /\ cache' = Cached(_load_data(cache, file))
    /\ last' = Outcome("get_active_entry", "", 0,
                       ActiveIdx(_load_data(cache, file)) # {},
                       get_active_entry(_load_data(cache, file)))
    /\ UNCHANGED <<file, fileOk, now, nextId, match, procs>>

RepoGetById(id) ==
    /\ CanLoad(cache, fileOk)
    /\ cache' = Cached(_load_data(cache, file))
    /\ LET data == _load_data(cache, file)
       IN  last' = Outcome("get_entry_by_id",
                           IF HasId(data, id) THEN "" ELSE "KeyError",
                           id, HasId(data, id), get_entry_by_id(data, id))
    /\ UNCHANGED <<file, fileOk, now, nextId, match, procs>>

(* get_by_project: the entries of exactly this project, in stored order *)
get_by_project(entries, project) ==
    SelectSeq(entries, LAMBDA e : e.project = project)

RepoGetByProject(project) ==
    /\ CanLoad(cache, fileOk)
    /\ cache' = Cached(_load_data(cache, file))
    /\ last' = [Outcome("get_by_project", "", 0, FALSE,
                        get_by_project(_load_data(cache, file), project))
                   EXCEPT !.arg = project]
    /\ UNCHANGED <<file, fileOk, now, nextId, match, procs>>

NextStore ==
    \/ \E e \in StoreEntries : RepoSave(e)
    \/ \E id \in Ids : RepoDelete(id)
    \/ RepoGetAll
    \/ RepoGetActive

SpecStore == Init /\ [][NextStore]_vars

(* ended entries over three start times, for the order of the collection *)
OrderEntries ==
    {Entry(i, ProjA, "", {}, st, MaxSortTime) : i \in Ids, st \in SortTimes}

NextOrder ==
    \/ \E e \in OrderEntries : RepoSave(e)
    \/ RepoSaveAgain
    \/ \E id \in Ids : RepoDelete(id)
    \/ RepoGetAll

SpecOrder == Init /\ [][NextOrder]_vars

(* one store instance after another on one file: started and ended entries *)
(* of two projects, every read and every write of the repository          *)
CacheEntries ==
    {Entry(i, p, "", {}, 0, et) : i \in Ids, p \in Projects, et \in {None, 0}}

NextCache ==
    \/ NewStore
    \/ \E e \in CacheEntries : RepoSave(e)
    \/ \E id \in Ids : RepoDelete(id)
    \/ RepoGetAll
    \/ RepoGetActive
    \/ \E id \in Ids : RepoGetById(id)
    \/ \E p \in Projects : RepoGetByProject(p)

SpecCache == Init /\ [][NextCache]_vars

----------------------------------------------------------------------------
(* Writes that fail: open(filename, "w") raises and the file is as it was, *)
(* or yaml.dump raises after open has truncated the file                   *)

RepoSaveFails(entry, truncated) ==
    /\ CanLoad(cache, fileOk)
    /\ LET data == _load_data(cache, file)
       IN  /\ HasId(data, entry.id) \/ entry.id = nextId
           (* data["entries"] = entries: data is the cached document itself *)
           /\ cache' = Cached(save(data, entry))
           /\ last' = Outcome("save", "OSError", entry.id,
                              HasId(data, entry.id), <<entry>>)
    /\ file' = IF truncated THEN <<>> ELSE file
    /\ fileOk' = (fileOk /\ ~truncated)
    /\ nextId' = IF entry.id = nextId THEN nextId + 1 ELSE nextId
    /\ UNCHANGED <<now, match, procs>>

RepoDeleteFails(id, truncated) ==
    /\ CanLoad(cache, fileOk)
    /\ HasId(_load_data(cache, file), id)
    (* the document written is a new one: the cached one is as loaded *)
    /\ cache' = Cached(_load_data(cache, file))
    /\ file' = IF truncated THEN <<>> ELSE file
    /\ fileOk' = (fileOk /\ ~truncated)
    /\ last' = Outcome("delete", "OSError", id, TRUE, <<>>)
    /\ UNCHANGED <<now, nextId, match, procs>>

(* the ids and entries the operations are called with where writes fail *)
FaultIds == {1, 2}
FaultEntries ==
    {Entry(i, ProjA, "", {}, st, None) : i \in FaultIds, st \in {0, 1}}

NextFault ==
    \/ NewStore
    \/ \E e \in FaultEntries : RepoSave(e)
    \/ \E id \in FaultIds : RepoDelete(id)
    \/ RepoGetAll
    \/ LoadFails("get_all")
    \/ \E e \in FaultEntries, t \in BOOLEAN : RepoSaveFails(e, t)
    \/ \E id \in FaultIds, t \in BOOLEAN : RepoDeleteFails(id, t)

SpecFault == Init /\ [][NextFault]_vars

----------------------------------------------------------------------------
(* _project_matching, on strings as tuples of characters *)

Wildcards == {"*", "+", "."}

StartsWith(str, prefix) ==
    /\ Len(prefix) <= Len(str)
    /\ SubSeq(str, 1, Len(prefix)) = prefix

(* the loop over filter_projects, in the order the set is iterated in;  *)
(* f_proj[-1] of an empty pattern raises IndexError                     *)
RECURSIVE _project_matching(_, _)
_project_matching(pats, project) ==
    IF pats = <<>> THEN "False"
    ELSE LET f_proj == Head(pats)
         IN  IF f_proj = <<>> THEN "IndexError"
             ELSE IF \/ /\ f_proj[Len(f_proj)] \in Wildcards
                        /\ StartsWith(project,
                                      SubSeq(f_proj, 1, Len(f_proj) - 1))
                     \/ f_proj = project
                  THEN "True"
                  ELSE _project_matching(Tail(pats), project)

PatternChars == {"a", "*", "+", "."}
ProjectChars == {"a", "."}

Patterns == UNION {[1..n -> PatternChars] : n \in 0..MaxPatLen}
ProjectNames == UNION {[1..n -> ProjectChars] : n \in 1..MaxPatLen}

Work == <<"w", "o", "r", "k">>
WorkDot == Work \o <<".">>
WorkClientA == WorkDot \o <<"c", "l", "i", "e", "n", "t", "-", "a">>
WorkClientB == WorkDot \o <<"c", "l", "i", "e", "n", "t", "-", "b">>
Workshop == Work \o <<"s", "h", "o", "p">>

(* a set of at most two patterns in an iteration order, and a project *)
MatchInputs ==
    {[pats |-> ps, project |-> p, result |-> "pending"] :
        ps \in {<<>>} \cup {<<f>> : f \in Patterns}
                 \cup {<<f, g>> : f, g \in Patterns},
        p \in ProjectNames}
    \cup
    {[pats |-> ps, project |-> p, result |-> "pending"] :
        ps \in {<<WorkDot>>, <<Work>>},
        p \in {Work, WorkClientA, WorkClientB, Workshop}}

InitMatch ==
    /\ file = <<>>
    /\ fileOk = TRUE
    /\ cache = Cached(<<>>)
    /\ now = 0
    /\ nextId = 1
    /\ match \in {m \in MatchInputs :
                     Len(m.pats) = 2 => m.pats[1] # m.pats[2]}
    /\ procs = NoProcs
    /\ last = Outcome("init", "", 0, FALSE, <<>>)

ApplyMatch ==
    /\ match.result = "pending"
    /\ match' = [match EXCEPT
                    !.result = _project_matching(match.pats, match.project)]
    /\ last' = Outcome("_project_matching", "", 0, FALSE, <<>>)
    /\ UNCHANGED <<file, fileOk, cache, now, nextId, procs>>

NextMatch == ApplyMatch

SpecMatch == InitMatch /\ [][NextMatch]_vars

----------------------------------------------------------------------------
(* Two processes on one file. Each has its own store and its own cache;  *)
(* _save_data is open(filename, "w"), which empties the file, and then   *)
(* yaml.dump, which writes the document from the start of the file.      *)

(* the file after a document is written from its start over what the     *)
(* file holds: what lies beyond the written document stays (at the grain *)
(* of entries)                                                           *)
Overlay(doc, held) ==
    IF Len(held) > Len(doc)
    THEN doc \o SubSeq(held, Len(doc) + 1, Len(held))
    ELSE doc

(* _load_data of a process without a cache: yaml.load of the file as it is *)
PLoad(p) ==
    /\ procs[p].pc = "idle"
    /\ IF fileOk
       THEN /\ procs' = [procs EXCEPT ![p] = [pc |-> "loaded", doc |-> file,
                                              before |-> <<>>]]
            /\ last' = Outcome("load", "", p, TRUE, file)
       ELSE /\ procs' = procs
            /\ last' = Outcome("load", "LoadError", p, FALSE, file)
    /\ UNCHANGED <<file, fileOk, cache, now, nextId, match>>

(* the first half of _save_data(data): open(filename, "w") *)
POpen(p, op, data) ==
    /\ procs' = [procs EXCEPT ![p] = [pc |-> "open", doc |-> data,
                                      before |-> file]]
    /\ file' = <<>>
    /\ fileOk' = FALSE
    /\ last' = Outcome(op, "", p, FALSE, data)
    /\ UNCHANGED <<cache, now, match>>

(* start tracking, by a process whose snapshot holds no active entry: *)
(* save of a new active entry, up to the opening of the file          *)
PStart(p) ==
    /\ procs[p].pc = "loaded"
    /\ get_active_entry(procs[p].doc) = <<>>
    /\ nextId <= MaxStarts
    /\ POpen(p, "open_start",
             save(procs[p].doc, Entry(nextId, ProjA, "", {}, 0, None)))
    /\ nextId' = nextId + 1

(* stop tracking: save of the active entry of the snapshot with an end_time *)
PStop(p) ==
    /\ procs[p].pc = "loaded"
    /\ get_active_entry(procs[p].doc) # <<>>
    /\ POpen(p, "open_stop",
             save(procs[p].doc,
                  [get_active_entry(procs[p].doc)[1] EXCEPT !.end_time = 0]))
    /\ UNCHANGED nextId

(* delete_entry of an entry of the snapshot, up to the opening of the file *)
PDelete(p, id) ==
    /\ procs[p].pc = "loaded"
    /\ HasId(procs[p].doc, id)
    /\ POpen(p, "open_delete", delete_entry(procs[p].doc, id))
    /\ UNCHANGED nextId

(* the second half of _save_data: yaml.dump writes the document and the  *)
(* file is closed; the command is over. Whether what is left of a longer *)
(* file after the document still parses depends on the bytes             *)
PFlush(p) ==
    /\ procs[p].pc = "open"
    /\ file' = Overlay(procs[p].doc, file)
    /\ IF Len(file) > Len(procs[p].doc)
       THEN fileOk' \in BOOLEAN
       ELSE fileOk' = TRUE
    /\ last' = Outcome("flush", "", p, TRUE, procs[p].doc)
    /\ procs' = [procs EXCEPT ![p] = NoProc]
    /\ UNCHANGED <<cache, now, nextId, match>>

NextConc ==
    \E p \in Procs :
        \/ PLoad(p)
        \/ PStart(p)
        \/ PStop(p)
        \/ \E id \in Ids : PDelete(p, id)
        \/ PFlush(p)

SpecConc == Init /\ [][NextConc]_vars

----------------------------------------------------------------------------
(* _check_against_filter and filter *)

TicksPerDay == 2

(* datetime.date() of a timestamp *)
DateOf(t) == t \div TicksPerDay

(* the id string of an entry: three characters, distinct for ids 1..8 *)
IdStr(i) ==
    << IF ((i - 1) \div 2) % 2 = 0 THEN "a" ELSE "x",
       IF (i - 1) % 2 = 0 THEN "b" ELSE "c",
       IF ((i - 1) \div 4) % 2 = 0 THEN "1" ELSE "2" >>

(* EntryListFilter: id "" (here <<>>), no projects, no date (None) and no *)
(* tags are the absent constraints; projects in iteration order           *)
EntryListFilter(id, projects, start_date, end_date, tags) ==
    [id |-> id, projects |-> projects, start_date |-> start_date,
     end_date |-> end_date, tags |-> tags]

(* the end_date condition without the test of entry.end_time *)
_check_against_filter_active(filter, entry) ==
    IF filter.projects # <<>>
       /\ _project_matching(filter.projects, entry.project) = "IndexError"
    THEN "IndexError"
    ELSE IF /\ filter.id = <<>> \/ StartsWith(IdStr(entry.id), filter.id)
            /\ \/ filter.projects = <<>>
               \/ _project_matching(filter.projects, entry.project) = "True"
            /\ \/ filter.start_date = None
               \/ DateOf(entry.start_time) >= filter.start_date
            /\ \/ filter.end_date = None
               \/ entry.end_time = None
               \/ DateOf(entry.end_time) <= filter.end_date
            /\ filter.tags = {} \/ \E tag \in filter.tags : tag \in entry.tags
         THEN "True"
         ELSE "False"

(* the list of conditions is built whole, so a raising condition raises *)
(* whatever the others are; then all(conditions)                        *)
_check_against_filter(filter, entry) ==
    IF filter.projects # <<>>
       /\ _project_matching(filter.projects, entry.project) = "IndexError"
    THEN "IndexError"
    ELSE IF /\ filter.id = <<>> \/ StartsWith(IdStr(entry.id), filter.id)
            /\ \/ filter.projects = <<>>
               \/ _project_matching(filter.projects, entry.project) = "True"
            /\ \/ filter.start_date = None
               \/ DateOf(entry.start_time) >= filter.start_date
            /\ \/ filter.end_date = None
               \/ /\ entry.end_time # None
                  /\ DateOf(entry.end_time) <= filter.end_date
            /\ filter.tags = {} \/ \E tag \in filter.tags : tag \in entry.tags
         THEN "True"
         ELSE "False"

(* filter: the entries of get_all that pass, in order; the first entry *)
(* whose check raises ends the call                                    *)
filter(entries, f) ==
    IF \E i \in 1..Len(entries) :
          _check_against_filter(f, entries[i]) = "IndexError"
    THEN Result(entries, "IndexError", <<>>)
    ELSE Result(entries, "",
                SelectSeq(entries,
                          LAMBDA e : _check_against_filter(f, e) = "True"))

RepoFilter(f) ==
    /\ CanLoad(cache, fileOk)
    /\ cache' = Cached(_load_data(cache, file))
    /\ LET r == filter(_load_data(cache, file), f)
       IN  last' = [Outcome("filter", r.err, 0, FALSE, r.ret) EXCEPT !.arg = f]
    /\ UNCHANGED <<file, fileOk, now, nextId, match, procs>>

FilterIds == {1, 2}

(* entries of two days: started on the first or the second day, active or *)
(* ended at once or at the end of the second day                          *)
FilterEntries ==
    {Entry(i, pt[1], "", pt[2], st, et) :
        i \in FilterIds,
        pt \in {<<ProjA, {}>>, <<ProjB, {"t"}>>},
        st \in {0, TicksPerDay},
        et \in {None, 2 * TicksPerDay - 1}}
    \cup
    {Entry(i, ProjA, "", {"t"}, st, st) :
        i \in FilterIds, st \in {0, TicksPerDay}}

(* the stored collections: ascending by start_time, ids distinct *)
FilterCollections ==
    UNION {{c \in [1..n -> FilterEntries] :
                \A i, j \in 1..n :
                    i < j => /\ c[i].start_time <= c[j].start_time
                             /\ c[i].id # c[j].id} :
           n \in 0..Cardinality(FilterIds)}

FilterDates == {None, 0, 1}

Filters ==
    {EntryListFilter(id, ps, sd, ed, tags) :
        id \in {<<>>, <<"a">>},
        ps \in {<<>>, <<ProjA>>, << <<"b", "*">> >>, << <<>> >>},
        sd \in FilterDates,
        ed \in FilterDates,
        tags \in {{}, {"u"}, {"t", "u"}}}

(* a store opened on a file that holds one of the collections, and the *)
(* filter it is about to be asked with                                 *)
InitFilter ==
    /\ file \in FilterCollections
    /\ fileOk = TRUE
    /\ cache = NoCache
    /\ now = 0
    /\ nextId = Cardinality(FilterIds) + 1
    /\ match = NoMatch
    /\ procs = NoProcs
    /\ \E f \in Filters :
          last = [Outcome("init", "", 0, FALSE, <<>>) EXCEPT !.arg = f]

ApplyFilter == RepoFilter(last.arg)

NextFilter == ApplyFilter

SpecFilter == InitFilter /\ [][NextFilter]_vars

----------------------------------------------------------------------------
(* TimeTrackingService, as the command line and its tests use it *)


(* stop_tracking: the active entry gets end_time = stop_time, or now *)
stop_tracking(entries, stop_time, t) ==
    LET active == get_active_entry(entries)
    IN  IF active = <<>>
        THEN Result(entries, "NoActiveEntryError", <<>>)
        ELSE LET e == [active[1] EXCEPT
                          !.end_time = IF stop_time = None THEN t ELSE stop_time]
             IN  Result(save(entries, e), "", <<e>>)

(* start_tracking: a start while an entry is active succeeds               *)
(* (test_start_command); the entry that was active is stopped first, then  *)
(* the new entry, with a fresh id and no end_time, is saved                *)
start_tracking(entries, project, comment, tags, start_time, t, id) ==
    LET stopped == IF get_active_entry(entries) = <<>> THEN entries
                   ELSE stop_tracking(entries, None, t).entries
        e == Entry(id, project, comment, tags,
                   IF start_time = None THEN t ELSE start_time, None)
    IN  Result(save(stopped, e), "", <<e>>)

(* update_entry: the entry must be stored under its id; then save *)
update_entry(entries, entry) ==
    IF HasId(entries, entry.id)
    THEN Result(save(entries, entry), "", <<entry>>)
    ELSE Result(entries, "KeyError", <<>>)

----------------------------------------------------------------------------
(* The commands: each is one process, with a store of its own on the file *)

(* the exit status click gives the command *)
ExitCode(o) == IF o.err = "" THEN 0 ELSE 1

(* the wall clock *)
Tick ==
    /\ now < MaxTime
    /\ now' = now + 1
    /\ last' = Outcome("tick", "", 0, FALSE, <<>>)
    /\ UNCHANGED <<file, fileOk, cache, nextId, match, procs>>

(* start printing the entry that was active before the call *)
start_prints_active(project, comment, tags, start_time) ==
    /\ fileOk
    /\ nextId <= MaxStarts
    /\ LET r == start_tracking(file, project, comment, tags, start_time,
                               now, nextId)
       IN  /\ file' = r.entries
           /\ cache' = Cached(r.entries)
           /\ last' = [Outcome("start", r.err, nextId,
                               get_active_entry(file) # <<>>,
                               IF get_active_entry(file) # <<>>
                               THEN get_active_entry(file) ELSE r.ret)
                          EXCEPT !.arg = project]
    /\ nextId' = nextId + 1
    /\ UNCHANGED <<fileOk, now, match, procs>>

(* the arguments start is invoked with *)
StartArgs ==
    {[project |-> ProjA, comment |-> "", tags |-> {}],
     [project |-> ProjB, comment |-> "c", tags |-> {"t"}]}

(* sigye start PROJECT [COMMENT] [--tag T] [--start_time S] *)
start(project, comment, tags, start_time) ==
    /\ fileOk
    /\ nextId <= MaxStarts
    /\ LET r == start_tracking(file, project, comment, tags, start_time,
                               now, nextId)
       IN  /\ file' = r.entries
           /\ cache' = Cached(r.entries)
           /\ last' = [Outcome("start", r.err, nextId,
                               get_active_entry(file) # <<>>, r.ret)
                          EXCEPT !.arg = project]
    /\ nextId' = nextId + 1
    /\ UNCHANGED <<fileOk, now, match, procs>>

(* sigye stop [COMMENT] [--stop_time S] *)
stop(comment, stop_time) ==
    /\ fileOk
    /\ LET active == get_active_entry(file)
           r == IF comment = "" THEN stop_tracking(file, stop_time, now)
                ELSE IF active = <<>>
                     THEN Result(file, "AttributeError", <<>>)
                     ELSE stop_tracking(
                              update_entry(file,
                                  [active[1] EXCEPT !.comment = comment]).entries,
                              stop_time, now)
       IN  /\ file' = r.entries
           /\ cache' = Cached(r.entries)
           /\ last' = Outcome("stop", r.err, 0, active # <<>>, r.ret)
    /\ UNCHANGED <<fileOk, now, nextId, match, procs>>

(* sigye status *)
status ==
    /\ fileOk
    /\ cache' = Cached(file)
    /\ last' = Outcome("status", "", 0, get_active_entry(file) # <<>>,
                       get_active_entry(file))
    /\ UNCHANGED <<file, fileOk, now, nextId, match, procs>>

Next ==
    \/ Tick
    \/ \E a \in StartArgs, st \in Times \cup {None} :
          start(a.project, a.comment, a.tags, st)
    \/ \E c \in Comments, st \in Times \cup {None} : stop(c, st)
    \/ status

Spec == Init /\ [][Next]_vars

(* get_entry_by_partial_id: the one entry whose id starts with the prefix; *)
(* KeyError when there is none, IndexError when there are several, as the *)
(* edit and delete commands catch them                                    *)
get_entry_by_partial_id(entries, prefix) ==
    LET found == SelectSeq(entries, LAMBDA e : StartsWith(IdStr(e.id), prefix))
    IN  IF Len(found) = 0 THEN Result(entries, "KeyError", <<>>)
        ELSE IF Len(found) > 1 THEN Result(entries, "IndexError", <<>>)
        ELSE Result(entries, "", found)

(* edit_entry: the editor gives the entry back with a comment written, or *)
(* the edit fails                                                         *)
edit_entry(entries, id, editor_ok) ==
    IF editor_ok
    THEN LET e == [get_entry_by_id(entries, id)[1] EXCEPT !.comment = "c"]
         IN  Result(save(entries, e), "", <<e>>)
    ELSE Result(entries, "EditorServiceError", <<>>)

(* the id prefixes the commands are given *)
Prefixes ==
    {<<>>, <<"a">>, <<"a", "b">>, <<"a", "c">>, <<"x">>, <<"q">>, IdStr(1)}

(* a delete command that takes the first of several matching entries *)
cli_delete_entry_first(id) ==
    /\ fileOk
    /\ LET found == SelectSeq(file, LAMBDA e : StartsWith(IdStr(e.id), id))
           r == IF found = <<>> THEN Result(file, "KeyError", <<>>)
                ELSE Result(delete_entry(file, found[1].id), "", <<found[1]>>)
       IN  /\ file' = r.entries
           /\ cache' = Cached(r.entries)
           /\ last' = [Outcome("delete", r.err,
                               IF r.ret = <<>> THEN 0 ELSE r.ret[1].id,
                               r.ret # <<>>, r.ret)
                          EXCEPT !.arg = id]
    /\ UNCHANGED <<fileOk, now, nextId, match, procs>>

(* sigye delete ID *)
cli_delete_entry(id) ==
    /\ fileOk
    /\ LET p == get_entry_by_partial_id(file, id)
           r == IF p.err # "" THEN p
                ELSE Result(delete_entry(file, p.ret[1].id), "", p.ret)
       IN  /\ file' = r.entries
           /\ cache' = Cached(r.entries)
           /\ last' = [Outcome("delete", r.err,
                               IF p.err = "" THEN p.ret[1].id ELSE 0,
                               p.err = "", r.ret)
                          EXCEPT !.arg = id]
    /\ UNCHANGED <<fileOk, now, nextId, match, procs>>

(* sigye edit ID *)
cli_edit_entry(id, editor_ok) ==
    /\ fileOk
    /\ LET p == get_entry_by_partial_id(file, id)
           r == IF p.err # "" THEN p
                ELSE edit_entry(file, p.ret[1].id, editor_ok)
       IN  /\ file' = r.entries
           /\ cache' = Cached(r.entries)
           /\ last' = [Outcome("edit", r.err,
                               IF p.err = "" THEN p.ret[1].id ELSE 0,
                               p.err = "", r.ret)
                          EXCEPT !.arg = id]
    /\ UNCHANGED <<fileOk, now, nextId, match, procs>>

(* entries made by start and stop, then looked up by a prefix of their id *)
NextPartial ==
    \/ start(ProjA, "", {}, None)
    \/ stop("", None)
    \/ \E id \in Prefixes : cli_delete_entry(id)
    \/ \E id \in Prefixes, ok \in BOOLEAN : cli_edit_entry(id, ok)

SpecPartial == Init /\ [][NextPartial]_vars

----------------------------------------------------------------------------
(* Properties of the repository operations (SpecStore) *)

Data == _load_data(cache, file)

AtMostOneActive(entries) == Cardinality(ActiveIdx(entries)) <= 1

Ascending(entries) ==
    \A i, j \in 1..Len(entries) :
        i < j => entries[i].start_time <= entries[j].start_time

IdsOf(entries) == [i \in 1..Len(entries) |-> entries[i].id]
PosOfId(entries, id) == Min({i \in 1..Len(entries) : entries[i].id = id})

(* ties stand in the order in which their entries were first inserted: *)
(* ids are made in increasing order, one for each inserted entry       *)
TiesInInsertionOrder(entries) ==
    \A i, j \in 1..Len(entries) :
        (i < j /\ entries[i].start_time = entries[j].start_time)
            => entries[i].id < entries[j].id

(* s without its k-th element *)
RemoveAt(s, k) == SubSeq(s, 1, k - 1) \o SubSeq(s, k + 1, Len(s))

(* the entries of s whose id is not id, in order *)
Others(s, id) == SelectSeq(s, LAMBDA e : e.id # id)

(* C4 as claimed: get_all is ascending in start_time, and entries with equal
   start_time stand in the order of their first insertion. *)
C4_SortedTiesByInsertion ==
    Ascending(Data) /\ TiesInInsertionOrder(Data)

(* C4, amended: after any sequence of saves and deletes get_all is ascending
   in start_time; a save of an id not yet stored puts the entry behind every
   stored entry with the same start_time; and save and delete keep the
   relative order of the entries whose start_time they do not change. *)
C4_SortedStable ==
    [][(last'.op \in {"save", "delete"} /\ last'.err = "") =>
        /\ Ascending(file')
        /\ _load_data(cache', file') = file'
        /\ Others(file', last'.id) = Others(Data, last'.id)
        /\ (last'.op = "save" /\ ~last'.found) =>
              \A i \in 1..Len(file') :
                  (file'[i].id # last'.id
                     /\ file'[i].start_time = last'.ret[1].start_time)
                  => i < PosOfId(file', last'.id)]_vars

(* the scenario of C4: C (latest start) saved first, then A (earliest),
   then B, and the collection reads A, B, C *)
C4_Witness ==
    /\ last.op = "save" /\ last.id = 3 /\ ~last.found
    /\ IdsOf(Data) = <<2, 3, 1>>
    /\ Data[1].start_time < Data[2].start_time
    /\ Data[2].start_time < Data[3].start_time

(* C6 as claimed: get_active_entry fails with CorruptStateError whenever more
   than one stored entry has no end_time, and returns none of them. *)
C6_CorruptStateError ==
    (last.op = "get_active_entry" /\ Cardinality(ActiveIdx(Data)) > 1)
        => (last.err = "CorruptStateError" /\ last.ret = <<>>)

(* C6, amended: get_active_entry never fails on a collection it can load;
   with no active entry it returns nothing, otherwise it returns a stored
   active entry whose start_time no other active entry precedes (the first
   active entry in stored order), also when several entries are active. *)
C6_ReturnsFirstActive ==
    last.op = "get_active_entry" =>
        /\ last.err = ""
        /\ (ActiveIdx(Data) = {}) => last.ret = <<>>
        /\ (ActiveIdx(Data) # {}) =>
              /\ Len(last.ret) = 1
              /\ \E i \in ActiveIdx(Data) : Data[i] = last.ret[1]
              /\ \A i \in ActiveIdx(Data) :
                    last.ret[1].start_time <= Data[i].start_time

C6_Witness ==
    /\ last.op = "get_active_entry"
    /\ Cardinality(ActiveIdx(Data)) > 1
    /\ \E i, j \in ActiveIdx(Data) : Data[i].start_time < Data[j].start_time

(* C7: save and delete keep the single-active-entry invariant: at most one
   active entry before implies at most one after, whatever entry is saved. *)
C7_WritesPreserveSingleActive ==
    [][(last'.op \in {"save", "delete"} /\ last'.err = ""
          /\ AtMostOneActive(Data))
        => AtMostOneActive(file')]_vars

(* C8: save is an upsert by id: afterwards exactly one entry has the saved
   id and it is the saved entry, the collection has grown by one iff the id
   was not stored before, and the entries with other ids are unchanged. *)
C8_SaveIsUpsert ==
    [][(last'.op = "save" /\ last'.err = "") =>
        LET e == last'.ret[1]
            post == _load_data(cache', file')
        IN  /\ Cardinality({i \in 1..Len(post) : post[i].id = e.id}) = 1
            /\ \A i \in 1..Len(post) : post[i].id = e.id => post[i] = e
            /\ Len(post) = Len(Data) + (IF HasId(Data, e.id) THEN 0 ELSE 1)
            /\ \A i \in 1..Len(Data) :
                  Data[i].id # e.id => \E j \in 1..Len(post) : post[j] = Data[i]
            /\ \A j \in 1..Len(post) :
                  post[j].id # e.id => \E i \in 1..Len(Data) : Data[i] = post[j]
            /\ post = file']_vars

(* a save that replaced a stored entry beside two others *)
C8_Witness ==
    /\ last.op = "save" /\ last.err = "" /\ last.found
    /\ Len(Data) = 3
    /\ \E i \in 1..Len(Data) : Data[i] = last.ret[1]

(* C9: delete of a stored id removes exactly that entry and returns it, the
   others keeping their order; delete of an id not stored fails with
   KeyError (the NotFoundError kind) and changes nothing. *)
C9_DeleteExact ==
    [][(last'.op = "delete") =>
        LET post == _load_data(cache', file')
        IN  IF HasId(Data, last'.id)
            THEN /\ last'.err = ""
                 /\ \E k \in 1..Len(Data) :
                       /\ Data[k].id = last'.id
                       /\ last'.ret = <<Data[k]>>
                       /\ post = RemoveAt(Data, k)
                 /\ file' = post
            ELSE /\ last'.err = "KeyError"
                 /\ post = Data
                 /\ file' = file]_vars

(* a delete that took the middle one of three entries *)
C9_Witness ==
    /\ last.op = "delete" /\ last.err = ""
    /\ Len(Data) = 2 /\ Len(last.ret) = 1
    /\ Data[1].start_time < last.ret[1].start_time
    /\ last.ret[1].start_time < Data[2].start_time

----------------------------------------------------------------------------
(* Properties of _project_matching (SpecMatch) *)

(* the matching rule of one pattern, as specified *)
PatternMatches(f, project) ==
    \/ f = project
    \/ /\ f # <<>>
       /\ f[Len(f)] \in Wildcards
       /\ StartsWith(project, SubSeq(f, 1, Len(f) - 1))

(* C5: for every set of patterns and every project, the entry matches iff
   some pattern of the set equals the project or ends in '*', '+' or '.' and
   the project starts with the pattern less that character. *)
C5_MatchesIffSomePattern ==
    match.result \notin {"none", "pending"} =>
        match.result =
            IF \E i \in 1..Len(match.pats) :
                   PatternMatches(match.pats[i], match.project)
            THEN "True" ELSE "False"

----------------------------------------------------------------------------
(* Properties of the writes that fail (SpecFault) *)

(* C10: when an operation fails, get_all on the same store afterwards
   returns the collection it returned before the call. *)
C10_FailureChangesNothing ==
    [][(last'.err # "" /\ CanLoad(cache, fileOk)) =>
        /\ CanLoad(cache', fileOk')
        /\ _load_data(cache', file') = Data]_vars

----------------------------------------------------------------------------
(* Properties of start and stop (Spec) *)

(* C1: after any sequence of start and stop commands from the empty store,
   at most one stored entry has no end_time. *)
C1_AtMostOneActive == AtMostOneActive(Data)

(* a start that found an entry active and left its own entry the active one *)
C1_Witness ==
    /\ last.op = "start" /\ last.found
    /\ Len(file) = 2
    /\ Cardinality(ActiveIdx(file)) = 1

(* C2 as claimed: a start while an entry is active fails with
   ActiveEntryExistsError, writes nothing, and the active entry is afterwards
   the one that was active, unchanged. *)
C2_DoubleStartFails ==
    [][(last'.op = "start" /\ last'.found) =>
        /\ last'.err = "ActiveEntryExistsError"
        /\ file' = file
        /\ get_active_entry(file') = get_active_entry(file)]_vars

(* C2, amended: a start while an entry is active does not fail: it succeeds,
   the entry that was active is stored with an end_time and its other fields
   unchanged, and the active entry is afterwards the newly started one. *)
C2_DoubleStartStopsActive ==
    [][(last'.op = "start" /\ last'.found) =>
        LET old == get_active_entry(file)[1]
        IN  /\ last'.err = ""
            /\ get_active_entry(file') = last'.ret
            /\ last'.ret[1].id # old.id
            /\ \E i \in 1..Len(file') :
                  /\ file'[i].end_time # None
                  /\ [file'[i] EXCEPT !.end_time = None] = old
            /\ Cardinality({i \in 1..Len(file') : file'[i].id = old.id}) = 1]_vars

(* proj-a is started, then proj-b before any stop *)
C2_Witness ==
    /\ last.op = "start" /\ last.found /\ last.err = ""
    /\ Len(file) = 2
    /\ \E i \in 1..2 : file[i].project = ProjA /\ file[i].end_time # None
    /\ \E i \in 1..2 : file[i].project = ProjB /\ file[i].end_time = None

(* C3: the start command run while an entry started by an earlier start is
   still active exits with status 0 and reports the project it was given. *)
C3_StartWhileActiveSucceeds ==
    (last.op = "start" /\ last.found) =>
        /\ ExitCode(last) = 0
        /\ Len(last.ret) = 1
        /\ last.ret[1].project = last.arg
        /\ last.ret[1].id = last.id

(* the second start of test_start_command: same project, with a comment *)
C3_Witness ==
    /\ last.op = "start" /\ last.found
    /\ ExitCode(last) = 0
    /\ last.arg = ProjB
    /\ \A i \in 1..Len(file) : file[i].project = ProjB


(* every stored entry with an end_time ends no earlier than it starts *)
EndsAfterStart(entries) ==
    \A i \in 1..Len(entries) :
        entries[i].end_time # None
            => entries[i].start_time <= entries[i].end_time

(* C14: a stop with no entry active fails with NoActiveEntryError and leaves
   the collection unchanged, for the stop command without and with a
   comment. *)
C14_StopWithoutActiveFails ==
    [][(last'.op = "stop" /\ ~last'.found) =>
        /\ last'.err = "NoActiveEntryError"
        /\ file' = file]_vars

(* C15: a stop whose end_time (now, or the stop time given) precedes the
   start_time of the active entry fails with InvalidTimeRangeError and leaves
   the entry active, so that after any sequence of starts and stops every
   stored entry with an end_time has start_time <= end_time. *)
C15_StopValidatesRange ==
    [][/\ (last'.op = "stop" /\ last'.found) =>
             IF last'.err = ""
             THEN last'.ret[1].start_time <= last'.ret[1].end_time
             ELSE /\ last'.err = "InvalidTimeRangeError"
                  /\ get_active_entry(file') = get_active_entry(file)
       /\ EndsAfterStart(file')]_vars

(* C17: saving the same entry twice in a row leaves the store as one save
   leaves it: the second save changes neither the contents nor the order of
   the collection. *)
C17_SaveIdempotent ==
    [][last'.op = "save_again" => (file' = file /\ cache' = cache)]_vars

(* an entry saved twice that stands before another entry of its start time *)
C17_Witness ==
    /\ last.op = "save_again"
    /\ \E i, j \in 1..Len(file) :
          /\ i < j
          /\ file[i].id = last.id
          /\ file[i].start_time = file[j].start_time

(* C18: within one store instance every read returns the collection as of
   the latest successful write: the cached snapshot is never older than the
   file the instance last wrote, after any reads, saves and deletes. While
   the file parses it holds the collection of the latest successful write. *)
C18_ReadsSeeLatestWrite ==
    fileOk =>
        /\ last.op = "get_all" => last.ret = file
        /\ last.op = "get_active_entry" => last.ret = get_active_entry(file)
        /\ last.op = "get_entry_by_id" =>
               last.ret = get_entry_by_id(file, last.id)
        /\ last.op = "get_by_project" =>
               last.ret = get_by_project(file, last.arg)

(* C19: starting from an empty store, after any saves and deletes no two
   stored entries share an id, so get_entry_by_id(id) and delete_entry(id)
   each identify at most one entry. *)
C19_IdsUnique ==
    /\ \A i, j \in 1..Len(file) : file[i].id = file[j].id => i = j
    /\ last.op \in {"get_entry_by_id", "delete"} =>
          /\ Len(last.ret) <= 1
          /\ Cardinality({i \in 1..Len(file) : file[i].id = last.id}) <= 1
    /\ (last.op = "delete" /\ last.err = "") => ~HasId(file, last.id)

(* an entry saved again under its id beside another, after a delete *)
C19_Witness ==
    /\ last.op = "save"
    /\ last.found
    /\ Len(file) = 2
    /\ nextId > 3

----------------------------------------------------------------------------
(* Properties of filter (SpecFilter) *)

(* the only constraint of the filter is its start_date *)
OnlyStartDate(f) ==
    /\ f.start_date # None
    /\ f.end_date = None
    /\ f.id = <<>>
    /\ f.projects = <<>>
    /\ f.tags = {}

(* C12: a filter with an end_date keeps an entry only if the entry has an
   end_time whose date is on or before end_date, so it keeps no active
   entry; a filter with only a start_date keeps an entry exactly when the
   date of its start_time is on or after start_date. *)
C12_DateFilters ==
    (last.op = "filter" /\ last.err = "") =>
        /\ last.arg.end_date # None =>
              \A i \in 1..Len(last.ret) :
                  /\ last.ret[i].end_time # None
                  /\ DateOf(last.ret[i].end_time) <= last.arg.end_date
        /\ OnlyStartDate(last.arg) =>
              last.ret = SelectSeq(file,
                  LAMBDA e : DateOf(e.start_time) >= last.arg.start_date)

(* an end_date filter that keeps an ended entry and drops an active one *)
(* started on the same day                                               *)
C12_Witness ==
    /\ last.op = "filter"
    /\ last.err = ""
    /\ last.arg.end_date # None
    /\ last.arg.start_date # None
    /\ Len(file) = 2
    /\ Len(last.ret) = 1
    /\ \E i \in 1..2 : /\ file[i].end_time = None
                       /\ DateOf(file[i].start_time) <= last.arg.end_date
                       /\ DateOf(file[i].start_time) >= last.arg.start_date

(* the constraints of a filter, as specified: absent ones exclude nothing *)
Satisfies(f, e) ==
    /\ f.id = <<>> \/ StartsWith(IdStr(e.id), f.id)
    /\ f.projects = <<>>
          \/ \E k \in 1..Len(f.projects) : PatternMatches(f.projects[k], e.project)
    /\ f.start_date = None \/ DateOf(e.start_time) >= f.start_date
    /\ f.end_date = None
          \/ (e.end_time # None /\ DateOf(e.end_time) <= f.end_date)
    /\ f.tags = {} \/ f.tags \cap e.tags # {}

(* C16: filter returns exactly the entries of get_all that satisfy all the
   constraints present in the filter together (id prefix, project patterns,
   start_date, end_date, any of the tags), in the order of get_all; an
   absent or empty constraint excludes nothing. *)
C16_FilterExact ==
    last.op = "filter" =>
        /\ last.err = ""
        /\ last.ret = SelectSeq(file, LAMBDA e : Satisfies(last.arg, e))

----------------------------------------------------------------------------
(* Properties of the lookup by a prefix of the id (SpecPartial) *)

(* the stored entries whose id starts with the prefix *)
Matching(entries, prefix) ==
    {i \in 1..Len(entries) : StartsWith(IdStr(entries[i].id), prefix)}

(* C13: the lookup by id prefix returns the entry when exactly one stored id
   starts with the prefix, fails with NotFoundError (KeyError) when none
   does and with AmbiguousIdError (IndexError) when several do; in the two
   failing cases the edit and delete commands act on no entry. *)
C13_PartialId ==
    [][last'.op \in {"edit", "delete"} =>
        LET m == Matching(file, last'.arg)
        IN  /\ m = {} => (last'.err = "KeyError" /\ file' = file)
            /\ Cardinality(m) > 1 => (last'.err = "IndexError" /\ file' = file)
            /\ Cardinality(m) = 1 =>
                  /\ last'.found
                  /\ \E i \in m : file[i].id = last'.id
                  /\ last'.err \in {"", "EditorServiceError"}
                  /\ (last'.op = "delete") =>
                        file' = delete_entry(file, last'.id)
                  /\ \A i \in 1..Len(file) :
                        i \notin m =>
                            \E j \in 1..Len(file') : file'[j] = file[i]]_vars

(* a delete by a prefix that two stored ids start with: nothing deleted *)
C13_Witness ==
    /\ last.op = "delete"
    /\ last.err = "IndexError"
    /\ last.arg = <<"a">>
    /\ Len(file) = 2

----------------------------------------------------------------------------
(* Properties of two processes on one file (SpecConc) *)

(* C11: the write path is atomic towards readers: a process that reads the
   file while another process writes it gets either the whole collection of
   before that write or the whole collection of after it, never an empty,
   truncated or half-written file. *)
C11_ReadersSeeWholeFile ==
    [][last'.op = "load" =>
        /\ last'.err = ""
        /\ \A q \in Procs :
              procs[q].pc = "open" =>
                  last'.ret \in {procs[q].before, procs[q].doc}]_vars

(* C20: when two processes, each with its own store and cache, interleave
   their loads and saves on one file, the collection left in the file is
   the whole collection the last writer wrote, never a mixture, and it
   holds at most one active entry when each process started tracking only
   after it saw no active entry in its own snapshot. *)
C20_LastWriterWins ==
    (last.op = "flush" /\ \A q \in Procs : procs[q].pc # "open") =>
        /\ fileOk
        /\ file = last.ret
        /\ Cardinality(ActiveIdx(file)) <= 1

====
